---------------------------- MODULE Spec2Model ----------------------------
(***************************************************************************)
(* Model of the Shadow Driver results plotter: parse_results of            *)
(* plot_results.py (the report parser) and create_graph of plot_results.py *)
(* and plot.py (the chart layout).                                         *)
(*                                                                         *)
(* Text is a sequence of one-character strings, so that strip, split, int  *)
(* and the regular expressions are computed character by character.        *)
(* Chart coordinates that the code computes with "/ 2" or "- 0.5" are kept *)
(* in half units (the stored number is twice the coordinate), which keeps  *)
(* them exact integers.                                                    *)
(***************************************************************************)
EXTENDS Integers, Sequences, FiniteSets, TLC

VARIABLES
    content,        \* parse_results: the text read from the file
    data_lines,     \* parse_results: the rows left after the header skip
    idx,            \* parse_results: number of data_lines already looped over
    results,        \* the record list (parse_results' list, create_graph's argument)
    pc,             \* position in the running function
    ret,            \* how the function ended: "running", "list", "None", an exception name, "done"
    written,        \* WriteReport: the records the report was written from
    script,         \* create_graph: which file's create_graph runs
    bars,           \* create_graph: the three bar series p1, p2, p3
    texts,          \* create_graph: ax.text calls that overlay the auto value
    separators,     \* create_graph: ax.axvline positions, in half units
    labels,         \* create_graph: category labels, x in half units
    brackets,       \* create_graph: bracket lines under the labels (plot_results.py), in half units
    files           \* create_graph: output files written so far

vars == <<content, data_lines, idx, results, pc, ret, written,
          script, bars, texts, separators, labels, brackets, files>>

---------------------------------------------------------------------------
(* Bounds of the model                                                     *)

\* most table rows after the table head in a generated report text
MaxRows == 3
\* most records handed to the report writer
MaxWritten == 2
\* most records handed to create_graph
MaxRecords == 3

---------------------------------------------------------------------------
(* Characters                                                              *)

LowerSeq == <<"a","b","c","d","e","f","g","h","i","j","k","l","m","n","o","p","q","r","s","t","u","v","w","x","y","z">>
UpperSeq == <<"A","B","C","D","E","F","G","H","I","J","K","L","M","N","O","P","Q","R","S","T","U","V","W","X","Y","Z">>
DigitSeq == <<"0","1","2","3","4","5","6","7","8","9">>

Range(s) == {s[i] : i \in 1..Len(s)}

LowerChars == Range(LowerSeq)
UpperChars == Range(UpperSeq)
\* \d of the re module
Digits == Range(DigitSeq)
\* \w of the re module
WordChars == LowerChars \cup UpperChars \cup Digits \cup {"_"}
\* \s of the re module, and what str.strip() removes
Whitespace == {" ", "\t", "\n", "\r"}

IndexIn(s, c) == CHOOSE k \in 1..Len(s) : s[k] = c

\* str.upper() on one character
upper_char(c) == IF c \in LowerChars THEN UpperSeq[IndexIn(LowerSeq, c)] ELSE c
\* str.lower() on one character
lower_char(c) == IF c \in UpperChars THEN LowerSeq[IndexIn(UpperSeq, c)] ELSE c

\* str.upper()
upper(s) == [i \in 1..Len(s) |-> upper_char(s[i])]

\* str.title(): a letter that follows a non-letter is upper-cased, the others lower-cased
title(s) ==
    [i \in 1..Len(s) |->
        IF i = 1 \/ s[i-1] \notin (LowerChars \cup UpperChars)
        THEN upper_char(s[i]) ELSE lower_char(s[i])]

\* str.replace(old, new) for one-character old and new
replace(s, old, new) == [i \in 1..Len(s) |-> IF s[i] = old THEN new ELSE s[i]]

RECURSIVE lstrip(_)
lstrip(s) == IF s # <<>> /\ Head(s) \in Whitespace THEN lstrip(Tail(s)) ELSE s

RECURSIVE rstrip(_)
rstrip(s) ==
    IF s # <<>> /\ s[Len(s)] \in Whitespace
    THEN rstrip(SubSeq(s, 1, Len(s) - 1)) ELSE s

\* str.strip()
strip(s) == rstrip(lstrip(s))

\* str.split(sep) for a one-character sep: always at least one part
RECURSIVE split(_, _)
split(s, sep) ==
    IF \E i \in 1..Len(s) : s[i] = sep
    THEN LET i == CHOOSE i \in 1..Len(s) :
                     s[i] = sep /\ \A j \in 1..(i-1) : s[j] # sep
         IN  <<SubSeq(s, 1, i - 1)>> \o split(SubSeq(s, i + 1, Len(s)), sep)
    ELSE <<s>>

\* sep.join(parts)
RECURSIVE join(_, _)
join(parts, sep) ==
    IF parts = <<>> THEN <<>>
    ELSE IF Len(parts) = 1 THEN parts[1]
    ELSE parts[1] \o sep \o join(Tail(parts), sep)

\* the digits of an int literal, with its sign and underscores removed
IntBody(t) == IF t # <<>> /\ t[1] \in {"+", "-"} THEN Tail(t) ELSE t

\* whether int(s) succeeds: optional sign, digits, single underscores between digits
int_ok(s) ==
    LET b == IntBody(strip(s))
    IN  /\ b # <<>>
        /\ \A i \in 1..Len(b) : b[i] \in Digits \cup {"_"}
        /\ b[1] \in Digits
        /\ b[Len(b)] \in Digits
        /\ \A i \in 1..(Len(b) - 1) : ~(b[i] = "_" /\ b[i+1] = "_")

RECURSIVE DigitsValue(_, _)
DigitsValue(b, acc) ==
    IF b = <<>> THEN acc
    ELSE IF Head(b) = "_" THEN DigitsValue(Tail(b), acc)
    ELSE DigitsValue(Tail(b), 10 * acc + (IndexIn(DigitSeq, Head(b)) - 1))

\* int(s), for an s with int_ok(s)
int(s) ==
    LET t == strip(s)
        v == DigitsValue(IntBody(t), 0)
    IN  IF t[1] = "-" THEN 0 - v ELSE v

RECURSIVE NatStr(_)
NatStr(n) ==
    IF n < 10 THEN <<DigitSeq[n + 1]>>
    ELSE NatStr(n \div 10) \o <<DigitSeq[(n % 10) + 1]>>

\* str(n), as the f-string of the report writer formats an int
str(n) == IF n < 0 THEN <<"-">> \o NatStr(0 - n) ELSE NatStr(n)

---------------------------------------------------------------------------
(* The regular expressions of parse_results                                *)

\* last index of the run of characters of class cls that starts at p (p - 1: no run)
RECURSIVE RunEnd(_, _, _)
RunEnd(s, p, cls) ==
    IF p <= Len(s) /\ s[p] \in cls THEN RunEnd(s, p + 1, cls) ELSE p - 1

\* (\d+)\s*% tried at position p: \d+ is greedy and giving digits back never helps
PctMatchAt(s, p) ==
    LET q == RunEnd(s, p, Digits)
        r == RunEnd(s, q + 1, Whitespace) + 1
    IN  q >= p /\ r <= Len(s) /\ s[r] = "%"

\* the search with (\d) in place of (\d+): only the digit next to the % is captured
search_pct_single_digit(s) ==
    LET hit(p) == s[p] \in Digits /\ PctMatchAt(s, p) /\ RunEnd(s, p, Digits) = p
    IN  IF \E p \in 1..Len(s) : hit(p)
        THEN LET p == CHOOSE p \in 1..Len(s) : hit(p) /\ \A j \in 1..(p-1) : ~hit(j)
             IN  [matched |-> TRUE, group1 |-> <<s[p]>>]
        ELSE [matched |-> FALSE, group1 |-> <<>>]

\* re.search(r'(\d+)\s*%', s): the leftmost match
search_pct(s) ==
    IF \E p \in 1..Len(s) : PctMatchAt(s, p)
    THEN LET p == CHOOSE p \in 1..Len(s) :
                     PctMatchAt(s, p) /\ \A j \in 1..(p-1) : ~PctMatchAt(s, j)
         IN  [matched |-> TRUE, group1 |-> SubSeq(s, p, RunEnd(s, p, Digits))]
    ELSE [matched |-> FALSE, group1 |-> <<>>]

\* re.match(r'(\w+)/(\w+)', s): anchored at the start of s only
match_label(s) ==
    LET q1 == RunEnd(s, 1, WordChars)
        q2 == RunEnd(s, q1 + 2, WordChars)
    IN  IF q1 >= 1 /\ q1 + 1 <= Len(s) /\ s[q1 + 1] = "/" /\ q2 >= q1 + 2
        THEN [matched |-> TRUE, group1 |-> SubSeq(s, 1, q1),
              group2 |-> SubSeq(s, q1 + 2, q2)]
        ELSE [matched |-> FALSE, group1 |-> <<>>, group2 |-> <<>>]

HeaderText == <<"F","a","u","l","t"," ","I","n","j","e","c","t","i","o","n"," ","R","e","s","u","l","t","s",":">>

StartsAt(s, p, pat) ==
    p + Len(pat) - 1 <= Len(s) /\ SubSeq(s, p, p + Len(pat) - 1) = pat

\* re.search(r'Fault Injection Results:(.*?)(?:\n\n|\Z)', content, re.DOTALL):
\* the leftmost header, then the shortest text up to a blank line or the end
search_section(s) ==
    IF \E p \in 1..Len(s) : StartsAt(s, p, HeaderText)
    THEN LET p == CHOOSE p \in 1..Len(s) :
                     StartsAt(s, p, HeaderText)
                     /\ \A j \in 1..(p-1) : ~StartsAt(s, j, HeaderText)
             b == p + Len(HeaderText)
             ends == {e \in b..Len(s) : StartsAt(s, e, <<"\n", "\n">>)}
             e == IF ends = {} THEN Len(s) + 1
                  ELSE CHOOSE e \in ends : \A f \in ends : e <= f
         IN  [matched |-> TRUE, group1 |-> SubSeq(s, b, e - 1)]
    ELSE [matched |-> FALSE, group1 |-> <<>>]

---------------------------------------------------------------------------
(* parse_results (plot_results.py)                                         *)

Mp3Player == <<"m","p","3","_","p","l","a","y","e","r">>
Mp3PlayerName == <<"M","P","3"," ","P","l","a","y","e","r">>

\* the readable app name for display
readable_app(app) ==
    IF app = Mp3Player THEN Mp3PlayerName ELSE title(replace(app, "_", " "))

HasPipe(line) == \E i \in 1..Len(line) : line[i] = "|"

\* the [2:] slice: drop the first two elements, or all of them when there are fewer
SkipHeaderLinesOne(pipe_lines) == SubSeq(pipe_lines, 2, Len(pipe_lines))

SkipHeaderLines(pipe_lines) == SubSeq(pipe_lines, 3, Len(pipe_lines))

\* lines of the section body, as results_section.group(1).strip().split('\n') gives them
SectionLines(group1) == split(strip(group1), "\n")

\* data_lines = [line for line in lines if '|' in line][2:]
DataLinesOf(lines) == SkipHeaderLines(SelectSeq(lines, HasPipe))

\* the record appended for a row whose label matched
NewRecord(match, trials, auto_pct, manual_pct, failed_pct) ==
    [driver       |-> match.group1,
     app          |-> match.group2,
     display_name |-> readable_app(match.group2),
     trials       |-> trials,
     auto_pct     |-> auto_pct,
     manual_pct   |-> manual_pct,
     failed_pct   |-> failed_pct]

\* open, read and locate the results section; None when there is none
FindSection ==
    /\ pc = "parse_start"
    /\ LET results_section == search_section(content)
       IN  IF ~results_section.matched
           THEN /\ pc' = "parse_end"
                /\ ret' = "None"
                /\ UNCHANGED <<data_lines, results>>
           ELSE /\ data_lines' = DataLinesOf(SectionLines(results_section.group1))
                /\ results' = <<>>
                /\ pc' = "parse_loop"
                /\ UNCHANGED ret
    /\ UNCHANGED <<content, idx, written, script, bars, texts, separators, labels, brackets, files>>

\* what the loop body does with one line: skips it ("short", "no_pct", "no_label"),
\* raises ("ValueError") or appends a record ("record")
RowResult(line) ==
    LET parts == split(line, "|")
    IN  IF Len(parts) >= 5
        THEN IF ~int_ok(parts[2])
             THEN \* int() raises ValueError, which nothing catches
                  [kind |-> "ValueError"]
             ELSE LET app_driver == strip(parts[1])
                      trials == int(parts[2])
                      auto_match == search_pct(strip(parts[3]))
                      manual_match == search_pct(strip(parts[4]))
                      failed_match == search_pct(strip(parts[5]))
                  IN  IF ~(auto_match.matched /\ manual_match.matched
                             /\ failed_match.matched)
                      THEN \* warning printed, continue
                           [kind |-> "no_pct"]
                      ELSE LET match == match_label(app_driver)
                           IN  IF match.matched
                               THEN [kind |-> "record",
                                     rec  |-> NewRecord(match, trials,
                                                  int(auto_match.group1),
                                                  int(manual_match.group1),
                                                  int(failed_match.group1))]
                               ELSE [kind |-> "no_label"]
        ELSE [kind |-> "short"]

\* one pass of "for line in data_lines"
ProcessLine ==
    /\ pc = "parse_loop"
    /\ idx < Len(data_lines)
    /\ LET row == RowResult(data_lines[idx + 1])
       IN  IF row.kind = "ValueError"
           THEN /\ pc' = "parse_end"
                /\ ret' = "ValueError"
                /\ UNCHANGED <<idx, results>>
           ELSE /\ results' = IF row.kind = "record"
                              THEN Append(results, row.rec) ELSE results
                /\ idx' = idx + 1
                /\ UNCHANGED <<pc, ret>>
    /\ UNCHANGED <<content, data_lines, written, script, bars, texts, separators,
                   labels, brackets, files>>

\* the loop is over: return results
ReturnResults ==
    /\ pc = "parse_loop"
    /\ idx = Len(data_lines)
    /\ pc' = "parse_end"
    /\ ret' = "list"
    /\ UNCHANGED <<content, data_lines, idx, results, written,
                   script, bars, texts, separators, labels, brackets, files>>

ParseNext == FindSection \/ ProcessLine \/ ReturnResults

---------------------------------------------------------------------------
(* Report texts the parser is run on                                       *)

OtherTitle == <<"S","u","m","m","a","r","y",":">>
TableHead == <<"A","p","p"," ","|"," ","N"," ","|"," ","A"," ","|"," ","M"," ","|"," ","F">>
TableRule == <<"-","-","|","-","-","|","-","-","|","-","-","|","-","-">>
RowMp3 == <<"s","n","d","/","m","p","3","_","p","l","a","y","e","r"," ","|"," ","1","0","0"," ","|"," ","7","9","%"," ","|"," ","1","6","%"," ","|"," ","5","%">>
RowDb == <<"i","d","e","/","d","b","|","7","|","3","8"," ","%","|","5","8","%","|","4","%">>
RowBadTrials == <<"s","n","d","/","r","e","c"," ","|"," ","n","/","a"," ","|"," ","4","4","%"," ","|"," ","5","6","%"," ","|"," ","0","%">>
RowShort == <<"e","1","0","0","0","/","n","e","t"," ","|"," ","3"," ","|"," ","9","7","%">>
RowJunkLabel == <<"s","n","d","/","m","p","3","!"," ","x"," ","|"," ","5"," ","|"," ","1","%"," ","|"," ","2","%"," ","|"," ","3","%">>
RowNoSlash == <<"s","n","d"," ","|"," ","5"," ","|"," ","1","%"," ","|"," ","2","%"," ","|"," ","3","%">>
RowNoPct == <<"i","d","e","/","c","c"," ","|"," ","9"," ","|"," ","3","8","%"," ","|"," ","5","8"," ","|"," ","4","%">>
RowNoPipe == <<"T","o","t","a","l",":"," ","3">>
BlankLine == <<>>

SeqsUpTo(S, n) == UNION {[1..k -> S] : k \in 0..n}

\* what precedes the rows: nothing, a lone head row, or head row and rule
TableHeads == {<<>>, <<TableHead>>, <<TableHead, TableRule>>}

RowPool == {RowMp3, RowDb, RowBadTrials, RowShort, RowJunkLabel, RowNoSlash,
            RowNoPct, RowNoPipe, BlankLine}

ReportText(title_line, lines) == title_line \o <<"\n">> \o join(lines, <<"\n">>)

\* the section title alone, another title, or the section title after other text
TitleLines == {HeaderText, OtherTitle, <<"L","o","g","\n","\n","=","=","\n">> \o HeaderText}

ReportTexts ==
    {ReportText(t, h \o r) :
        t \in TitleLines, h \in TableHeads, r \in SeqsUpTo(RowPool, MaxRows)}

Idle ==
    /\ script = "none"
    /\ bars = <<>>
    /\ texts = <<>>
    /\ separators = <<>>
    /\ labels = <<>>
    /\ brackets = <<>>
    /\ files = {}

Init ==
    /\ content \in ReportTexts
    /\ data_lines = <<>>
    /\ idx = 0
    /\ results = <<>>
    /\ pc = "parse_start"
    /\ ret = "running"
    /\ written = <<>>
    /\ Idle

Next == ParseNext

Spec == Init /\ [][Next]_vars

---------------------------------------------------------------------------
(* Reports written from known records, for the round trip                  *)

Snd == <<"s","n","d">>
E1000 == <<"e","1","0","0","0">>
Ide == <<"i","d","e">>
IdeCaps == <<"I","D","E">>
Usb == <<"u","s","b">>
Db == <<"d","b">>
Net == <<"n","e","t">>
Rec == <<"r","e","c">>

Record(driver, app, trials, auto_pct, manual_pct, failed_pct) ==
    [driver       |-> driver,
     app          |-> app,
     display_name |-> readable_app(app),
     trials       |-> trials,
     auto_pct     |-> auto_pct,
     manual_pct   |-> manual_pct,
     failed_pct   |-> failed_pct]

\* one report row: driver/app | trials | a% | m% | f%
RowOf(r) ==
    r.driver \o <<"/">> \o r.app \o <<" ", "|", " ">> \o str(r.trials)
    \o <<" ", "|", " ">> \o str(r.auto_pct) \o <<"%", " ", "|", " ">>
    \o str(r.manual_pct) \o <<"%", " ", "|", " ">> \o str(r.failed_pct) \o <<"%">>

\* section header, two header rows, one row per record
ReportOf(recs) ==
    ReportText(HeaderText,
               <<TableHead, TableRule>> \o [i \in 1..Len(recs) |-> RowOf(recs[i])])

PctTriples == {<<79, 16, 5>>, <<0, 0, 0>>, <<100, 7, 0>>, <<0 - 5, 100, 5>>}

WrittenPool ==
    {Record(d, a, t, p[1], p[2], p[3]) :
        d \in {Snd, E1000}, a \in {Mp3Player, Db}, t \in {0, 100}, p \in PctTriples}

InitRoundTrip ==
    /\ written \in SeqsUpTo(WrittenPool, MaxWritten)
    /\ content = ReportOf(written)
    /\ data_lines = <<>>
    /\ idx = 0
    /\ results = <<>>
    /\ pc = "parse_start"
    /\ ret = "running"
    /\ Idle

SpecRoundTrip == InitRoundTrip /\ [][ParseNext]_vars

---------------------------------------------------------------------------
(* create_graph (plot_results.py and plot.py)                              *)

Sound == <<"S","o","u","n","d">>
Network == <<"N","e","t","w","o","r","k">>

\* driver_names.get(d, d.upper())
driver_names_get(d) ==
    IF d = Snd THEN Sound
    ELSE IF d = E1000 THEN Network
    ELSE IF d = Ide THEN IdeCaps
    ELSE upper(d)

\* drivers = [driver_names.get(d, d.upper()) for d in raw_drivers]
DriversOf(rs) == [i \in 1..Len(rs) |-> driver_names_get(rs[i].driver)]

\* the stack drawn clamped to the 0..100 axis
StackClamped(r, x) ==
    LET cap(v) == IF v > 100 THEN 100 ELSE v
    IN  [p1 |-> [x |-> x, bottom |-> 0, height |-> r.auto_pct],
         p2 |-> [x |-> x, bottom |-> r.auto_pct,
                 height |-> cap(r.auto_pct + r.manual_pct) - r.auto_pct],
         p3 |-> [x |-> x, bottom |-> cap(r.auto_pct + r.manual_pct),
                 height |-> cap(r.auto_pct + r.manual_pct + r.failed_pct)
                            - cap(r.auto_pct + r.manual_pct)]]

\* the three ax.bar segments of the record in slot x
Stack(r, x) ==
    [p1 |-> [x |-> x, bottom |-> 0, height |-> r.auto_pct],
     p2 |-> [x |-> x, bottom |-> r.auto_pct, height |-> r.manual_pct],
     p3 |-> [x |-> x, bottom |-> r.auto_pct + r.manual_pct, height |-> r.failed_pct]]

\* the numbers written into the automatic recovery bars, y in half units
RECURSIVE NumberTexts(_, _, _, _)
NumberTexts(plot, rs, i, acc) ==
    IF i >= Len(rs) THEN acc
    ELSE LET v == rs[i + 1].auto_pct
             t == [x |-> i, y2 |-> v, s |-> str(v)]
         IN  IF plot = "plot_results.py"
             THEN \* if height > 0
                  NumberTexts(plot, rs, i + 1, IF v > 0 THEN Append(acc, t) ELSE acc)
             ELSE \* plot.py writes every value
                  NumberTexts(plot, rs, i + 1, Append(acc, t))

\* the separator loop with current_driver never updated
RECURSIVE SeparatorLoopStale(_, _, _, _)
SeparatorLoopStale(drivers, i, current_driver, acc) ==
    IF i >= Len(drivers) THEN acc
    ELSE IF drivers[i + 1] # current_driver
         THEN SeparatorLoopStale(drivers, i + 1, current_driver, Append(acc, 2 * i - 1))
         ELSE SeparatorLoopStale(drivers, i + 1, current_driver, acc)

\* for i, d in enumerate(drivers[1:], 1): a separator at i - 0.5 where d changes
RECURSIVE SeparatorLoop(_, _, _, _)
SeparatorLoop(drivers, i, current_driver, acc) ==
    IF i >= Len(drivers) THEN acc
    ELSE IF drivers[i + 1] # current_driver
         THEN SeparatorLoop(drivers, i + 1, drivers[i + 1], Append(acc, 2 * i - 1))
         ELSE SeparatorLoop(drivers, i + 1, current_driver, acc)

\* the separators with an empty driver list taken as "no separators"
SeparatorPositionsLenient(drivers) ==
    IF drivers = <<>> THEN [raised |-> FALSE, positions |-> <<>>]
    ELSE [raised |-> FALSE,
          positions |-> SeparatorLoop(drivers, 1, drivers[1], <<>>)]

\* current_driver = drivers[0] raises IndexError on an empty list
SeparatorPositions(drivers) ==
    IF drivers = <<>> THEN [raised |-> TRUE, positions |-> <<>>]
    ELSE [raised |-> FALSE,
          positions |-> SeparatorLoop(drivers, 1, drivers[1], <<>>)]

\* the label loop with the midpoint taken to the slot after the run
RECURSIVE LabelLoopOffByOne(_, _, _, _, _, _)
LabelLoopOffByOne(drivers, i, has_current, current_driver, start_pos, acc) ==
    IF i >= Len(drivers)
    THEN [labels |-> Append(acc.labels,
                        [x2 |-> start_pos + Len(drivers), text |-> current_driver]),
          brackets |-> Append(acc.brackets,
                        [from2 |-> 2 * start_pos - 1, to2 |-> 2 * Len(drivers) - 1])]
    ELSE LET d == drivers[i + 1]
         IN  IF ~has_current \/ d # current_driver
             THEN LabelLoopOffByOne(drivers, i + 1, TRUE, d, i,
                      IF has_current
                      THEN [labels |-> Append(acc.labels,
                                [x2 |-> start_pos + i, text |-> current_driver]),
                            brackets |-> Append(acc.brackets,
                                [from2 |-> 2 * start_pos - 1, to2 |-> 2 * i - 1])]
                      ELSE acc)
             ELSE LabelLoopOffByOne(drivers, i + 1, has_current, current_driver,
                                    start_pos, acc)

\* for i, d in enumerate(drivers): when d changes, label the run that just ended at
\* (start_pos + i - 1) / 2; after the loop, label the last run.
\* current_driver = None is has_current = FALSE.
RECURSIVE LabelLoop(_, _, _, _, _, _)
LabelLoop(drivers, i, has_current, current_driver, start_pos, acc) ==
    IF i >= Len(drivers)
    THEN [labels |-> Append(acc.labels,
                        [x2 |-> start_pos + Len(drivers) - 1, text |-> current_driver]),
          brackets |-> Append(acc.brackets,
                        [from2 |-> 2 * start_pos - 1, to2 |-> 2 * Len(drivers) - 1])]
    ELSE LET d == drivers[i + 1]
         IN  IF ~has_current \/ d # current_driver
             THEN LabelLoop(drivers, i + 1, TRUE, d, i,
                      IF has_current
                      THEN [labels |-> Append(acc.labels,
                                [x2 |-> start_pos + i - 1, text |-> current_driver]),
                            brackets |-> Append(acc.brackets,
                                [from2 |-> 2 * start_pos - 1, to2 |-> 2 * i - 1])]
                      ELSE acc)
             ELSE LabelLoop(drivers, i + 1, has_current, current_driver,
                            start_pos, acc)

UnchangedParser == UNCHANGED <<content, data_lines, idx, written>>

\* plot_results.py: "if not results: return"; plot.py has no such test
CheckResults ==
    /\ pc = "graph_start"
    /\ IF script = "plot_results.py" /\ results = <<>>
       THEN pc' = "graph_end" /\ ret' = "NoResults"
       ELSE pc' = "bars" /\ UNCHANGED ret
    /\ UNCHANGED <<results, script, bars, texts, separators, labels, brackets, files>>
    /\ UnchangedParser

\* p1, p2, p3 = ax.bar(...)
DrawBars ==
    /\ pc = "bars"
    /\ bars' = [i \in 1..Len(results) |-> Stack(results[i], i - 1)]
    /\ pc' = "numbers"
    /\ UNCHANGED <<results, ret, script, texts, separators, labels, brackets, files>>
    /\ UnchangedParser

\* the loop that adds the automatic recovery percentages
AddNumbers ==
    /\ pc = "numbers"
    /\ texts' = NumberTexts(script, results, 0, <<>>)
    /\ pc' = "separators"
    /\ UNCHANGED <<results, ret, script, bars, separators, labels, brackets, files>>
    /\ UnchangedParser

\* vertical separators between driver categories
AddSeparators ==
    /\ pc = "separators"
    /\ LET sp == SeparatorPositions(DriversOf(results))
       IN  IF sp.raised
           THEN pc' = "graph_end" /\ ret' = "IndexError" /\ UNCHANGED separators
           ELSE pc' = "labels" /\ separators' = sp.positions /\ UNCHANGED ret
    /\ UNCHANGED <<results, script, bars, texts, labels, brackets, files>>
    /\ UnchangedParser

\* driver category labels at the top; plot_results.py also draws a bracket per label
AddLabels ==
    /\ pc = "labels"
    /\ LET drawn == LabelLoop(DriversOf(results), 0, FALSE, "None", 0,
                              [labels |-> <<>>, brackets |-> <<>>])
       IN  /\ labels' = drawn.labels
           /\ brackets' = IF script = "plot_results.py" THEN drawn.brackets ELSE <<>>
    /\ pc' = "save_png"
    /\ UNCHANGED <<results, ret, script, bars, texts, separators, files>>
    /\ UnchangedParser

\* plt.savefig(output_file, dpi=300, bbox_inches='tight')
SavePng ==
    /\ pc = "save_png"
    /\ files' = files \cup {"fault_injection_outcomes.png"}
    /\ pc' = "save_more"
    /\ UNCHANGED <<results, ret, script, bars, texts, separators, labels, brackets>>
    /\ UnchangedParser

\* plot.py: plt.savefig(pdf_file, format='pdf', bbox_inches='tight')
SavePdf ==
    /\ pc = "save_more"
    /\ script = "plot.py"
    /\ files' = files \cup {"fault_injection_outcomes.pdf"}
    /\ pc' = "graph_end"
    /\ ret' = "done"
    /\ UNCHANGED <<results, script, bars, texts, separators, labels, brackets>>
    /\ UnchangedParser

\* plot_results.py: the CSV output
SaveCsv ==
    /\ pc = "save_more"
    /\ script = "plot_results.py"
    /\ files' = files \cup {"fault_injection_results.csv"}
    /\ pc' = "graph_end"
    /\ ret' = "done"
    /\ UNCHANGED <<results, script, bars, texts, separators, labels, brackets>>
    /\ UnchangedParser

GraphNext ==
    \/ CheckResults
    \/ DrawBars
    \/ AddNumbers
    \/ AddSeparators
    \/ AddLabels
    \/ SavePng
    \/ SavePdf
    \/ SaveCsv

GraphRecordPool ==
    {Record(Snd, Mp3Player, 100, 79, 16, 5),
     Record(Snd, Rec, 100, 0, 100, 0),
     Record(E1000, Net, 100, 97, 3, 0),
     Record(Ide, Db, 100, 60, 60, 60),
     Record(IdeCaps, Db, 100, 38, 58, 4),
     Record(Usb, Net, 0, 0, 0, 0)}

InitGraph ==
    /\ script \in {"plot_results.py", "plot.py"}
    /\ results \in SeqsUpTo(GraphRecordPool, MaxRecords)
    /\ pc = "graph_start"
    /\ ret = "running"
    /\ content = <<>>
    /\ data_lines = <<>>
    /\ idx = 0
    /\ written = <<>>
    /\ bars = <<>>
    /\ texts = <<>>
    /\ separators = <<>>
    /\ labels = <<>>
    /\ brackets = <<>>
    /\ files = {}

SpecGraph == InitGraph /\ [][GraphNext]_vars

---------------------------------------------------------------------------
(* Properties of parse_results                                             *)

ParseEnded == pc = "parse_end"
Returned == pc = "parse_end" /\ ret = "list"

\* the records of the rows of ls that the loop body turns into a record, in order
RECURSIVE RecordsOf(_)
RecordsOf(ls) ==
    IF ls = <<>> THEN <<>>
    ELSE (IF RowResult(Head(ls)).kind = "record"
          THEN <<RowResult(Head(ls)).rec>> ELSE <<>>) \o RecordsOf(Tail(ls))

BadTrialsRow(line) == RowResult(line).kind = "ValueError"

\* the lines of the results section of the text being parsed
BodyLines == SectionLines(search_section(content).group1)

\* the label shape of the specification: word characters, one "/", word characters
LabelShape(s) ==
    \E i \in 2..(Len(s) - 1) :
        /\ s[i] = "/"
        /\ \A j \in (1..Len(s)) \ {i} : s[j] \in WordChars

\* a valid data row as the specification has it: at least 5 columns, a label of
\* that shape, an integer trial count and three extractable percentages
ValidRow(line) ==
    LET parts == split(line, "|")
    IN  /\ Len(parts) >= 5
        /\ LabelShape(strip(parts[1]))
        /\ int_ok(parts[2])
        /\ \A c \in 3..5 : search_pct(strip(parts[c])).matched

\* C1: a data row whose trial count is not an integer is only skipped: the parse
\* still returns a list, and that list holds the record of every other valid row.
C1_BadTrialsRowOnlySkipped ==
    (ParseEnded /\ \E k \in 1..Len(data_lines) : BadTrialsRow(data_lines[k]))
        => (ret = "list" /\ results = RecordsOf(data_lines))

\* C2: when the text has a results section and none of its data rows is valid,
\* parse_results returns the empty list: not None, and no exception.
C2_NoValidRowGivesEmptyList ==
    (ParseEnded /\ search_section(content).matched
        /\ \A k \in 1..Len(data_lines) : ~ValidRow(data_lines[k]))
        => (ret = "list" /\ results = <<>>)

\* number of the lines 1..k of ls that contain "|"
PipeRank(ls, k) == Cardinality({j \in 1..k : HasPipe(ls[j])})
\* number of columns of a line: one more than its "|" characters
ColumnCount(line) == Cardinality({i \in 1..Len(line) : line[i] = "|"}) + 1

\* the section lines records may come from: with "|", not among the first two
\* such lines, at least 5 columns
EligibleLine(ls, k) ==
    HasPipe(ls[k]) /\ PipeRank(ls, k) > 2 /\ ColumnCount(ls[k]) >= 5

RECURSIVE EligibleFrom(_, _)
EligibleFrom(ls, k) ==
    IF k > Len(ls) THEN <<>>
    ELSE (IF EligibleLine(ls, k) THEN <<ls[k]>> ELSE <<>>) \o EligibleFrom(ls, k + 1)

\* C3: the returned records are built from exactly the section lines that contain
\* "|", are not among the first two such lines and have at least 5 columns, in
\* order; the first two "|" lines and the shorter rows contribute nothing.
C3_RecordsOnlyFromEligibleLines ==
    Returned => results = RecordsOf(EligibleFrom(BodyLines, 1))

\* a parse that returned a record although the first two "|" lines were not both
\* table head rows (one of them was a well-formed data row) and a later row had
\* fewer than 5 columns
C3_Witness ==
    /\ Returned
    /\ results # <<>>
    /\ \E k \in 1..Len(BodyLines) :
          /\ HasPipe(BodyLines[k]) /\ PipeRank(BodyLines, k) <= 2
          /\ ValidRow(BodyLines[k])
    /\ \E k \in 1..Len(BodyLines) :
          /\ HasPipe(BodyLines[k]) /\ PipeRank(BodyLines, k) > 2
          /\ ColumnCount(BodyLines[k]) < 5

\* C9: a row becomes a record only if its trimmed label has the shape driver/app;
\* every row looped over whose label has another shape contributes no record.
C9_OnlyShapedLabelsGiveRecords ==
    pc \in {"parse_loop", "parse_end"}
        => results = RecordsOf(SelectSeq(SubSeq(data_lines, 1, idx), ValidRow))

---------------------------------------------------------------------------
(* The round trip                                                          *)

SameValues(r, w) ==
    /\ r.driver = w.driver
    /\ r.app = w.app
    /\ r.trials = w.trials
    /\ r.auto_pct = w.auto_pct
    /\ r.manual_pct = w.manual_pct
    /\ r.failed_pct = w.failed_pct

Recovered ==
    /\ ret = "list"
    /\ Len(results) = Len(written)
    /\ \A i \in 1..Len(written) : SameValues(results[i], written[i])

NonNegativePcts(w) == w.auto_pct >= 0 /\ w.manual_pct >= 0 /\ w.failed_pct >= 0

\* C4 as stated: parsing the report written from any well-formed records (integer
\* percentages) gives the same records back, in order.
C4_RoundTripAnyIntegerPct == ParseEnded => Recovered

\* C4 amended: parsing the report written from well-formed records whose
\* percentages are non-negative integers gives the same records back, in order.
C4_RoundTripNonNegativePct ==
    (ParseEnded /\ \A i \in 1..Len(written) : NonNegativePcts(written[i]))
        => Recovered

\* two different records with non-negative percentages written and parsed
C4_Witness ==
    /\ ParseEnded
    /\ Len(written) = 2
    /\ written[1] # written[2]
    /\ \A i \in 1..Len(written) : NonNegativePcts(written[i])
    /\ written[1].auto_pct + written[1].manual_pct + written[1].failed_pct # 100

---------------------------------------------------------------------------
(* Properties of create_graph                                              *)

BarsDrawn == pc \in {"numbers", "separators", "labels", "save_png", "save_more"} \/ ret = "done"
NumbersDrawn == pc \in {"separators", "labels", "save_png", "save_more"} \/ ret = "done"
SeparatorsDrawn == pc \in {"labels", "save_png", "save_more"} \/ ret = "done"
LabelsDrawn == pc \in {"save_png", "save_more"} \/ ret = "done"

Count(s, v) == Cardinality({k \in 1..Len(s) : s[k] = v})

\* C5: create_graph with zero records writes no file and never reaches a save
\* step; it ends in a failure (the "No results" return of plot_results.py, the
\* IndexError of plot.py), not in a rendered chart.
C5_EmptyInputWritesNoFile ==
    (script # "none" /\ results = <<>>)
        => /\ files = {}
           /\ pc \notin {"save_png", "save_more"}
           /\ (pc = "graph_end" => ret \in {"NoResults", "IndexError"})

\* plot.py's create_graph has ended on an empty record list
C5_Witness ==
    script = "plot.py" /\ results = <<>> /\ pc = "graph_end" /\ ret = "IndexError"

\* C6 as stated: one separator at i - 0.5 when the driver code of record i
\* differs from that of record i-1, none when the codes are equal.
C6_SeparatorWhereDriverCodeChanges ==
    SeparatorsDrawn =>
        \A i \in 1..(Len(results) - 1) :
            Count(separators, 2 * i - 1) =
                IF results[i + 1].driver # results[i].driver THEN 1 ELSE 0

\* C6 amended: one separator at i - 0.5 when the category name the driver code
\* of record i maps to differs from that of record i-1, none when the two names
\* are equal; there are no other separators.
C6_SeparatorWhereCategoryChanges ==
    SeparatorsDrawn =>
        /\ \A i \in 1..(Len(results) - 1) :
              Count(separators, 2 * i - 1) =
                  IF driver_names_get(results[i + 1].driver)
                         # driver_names_get(results[i].driver)
                  THEN 1 ELSE 0
        /\ \A k \in 1..Len(separators) :
              \E i \in 1..(Len(results) - 1) : separators[k] = 2 * i - 1

\* separators drawn for records where one adjacent pair changes the driver code
\* within a category and another adjacent pair changes the category
C6_Witness ==
    /\ SeparatorsDrawn
    /\ \E i \in 1..(Len(results) - 1) :
          /\ results[i + 1].driver # results[i].driver
          /\ driver_names_get(results[i + 1].driver) = driver_names_get(results[i].driver)
          /\ Count(separators, 2 * i - 1) = 0
    /\ \E i \in 1..(Len(results) - 1) :
          /\ driver_names_get(results[i + 1].driver) # driver_names_get(results[i].driver)
          /\ Count(separators, 2 * i - 1) = 1

\* the slots (0-based) at which a run of equal categories starts
RunStarts(cats) == {s \in 0..(Len(cats) - 1) : s = 0 \/ cats[s + 1] # cats[s]}
\* the last slot of the run that starts at s
LastOfRun(cats, s) ==
    CHOOSE e \in s..(Len(cats) - 1) :
        /\ \A j \in s..e : cats[j + 1] = cats[s + 1]
        /\ (e = Len(cats) - 1 \/ cats[e + 2] # cats[s + 1])
\* the k-th run start, counting from 1
NthStart(cats, k) ==
    CHOOSE s \in RunStarts(cats) : Cardinality({t \in RunStarts(cats) : t < s}) = k - 1

\* C7: one label per maximal run of equal categories, at (first + last) / 2 of
\* the run, with the run's category name; one more label than separators; a
\* single record gets no separator and one label at x = 0.
C7_OneLabelPerRun ==
    (LabelsDrawn /\ results # <<>>) =>
        LET cats == DriversOf(results)
        IN  /\ Len(labels) = Cardinality(RunStarts(cats))
            /\ \A k \in 1..Len(labels) :
                  LET s == NthStart(cats, k)
                  IN  /\ labels[k].x2 = s + LastOfRun(cats, s)
                      /\ labels[k].text = cats[s + 1]
            /\ Len(labels) = Len(separators) + 1
            /\ (Len(results) = 1 =>
                    separators = <<>> /\ labels = <<[x2 |-> 0, text |-> cats[1]]>>)

\* labels drawn for three records that form a run of two and a run of one
C7_Witness ==
    /\ LabelsDrawn
    /\ Len(results) = 3
    /\ Len(labels) = 2
    /\ \E k \in 1..2 : labels[k].x2 = 1

\* C8: the segments of every record are stacked auto, manual, failed with
\* bottoms 0, auto and auto + manual, so the stack tops out at
\* auto + manual + failed, whatever that sum is.
C8_StackTopIsTheSum ==
    BarsDrawn =>
        /\ Len(bars) = Len(results)
        /\ \A i \in 1..Len(results) :
              LET r == results[i]
                  b == bars[i]
              IN  /\ b.p1.x = i - 1 /\ b.p2.x = i - 1 /\ b.p3.x = i - 1
                  /\ b.p1.bottom = 0
                  /\ b.p1.height = r.auto_pct
                  /\ b.p2.bottom = b.p1.bottom + b.p1.height
                  /\ b.p2.height = r.manual_pct
                  /\ b.p3.bottom = b.p2.bottom + b.p2.height
                  /\ b.p3.height = r.failed_pct
                  /\ b.p3.bottom + b.p3.height
                         = r.auto_pct + r.manual_pct + r.failed_pct

\* bars drawn for a record whose percentages add up to more than 100
C8_Witness ==
    /\ BarsDrawn
    /\ \E i \in 1..Len(results) :
          /\ results[i].auto_pct + results[i].manual_pct + results[i].failed_pct > 100
          /\ bars[i].p3.bottom + bars[i].p3.height > 100

\* C10: a slot gets the numeric overlay if and only if its autoPct is above 0,
\* in plot_results.py and in plot.py.
C10_OverlayIffAutoPositive ==
    NumbersDrawn =>
        \A i \in 1..Len(results) :
            (\E k \in 1..Len(texts) : texts[k].x = i - 1) <=> results[i].auto_pct > 0

=============================================================================
